---- MODULE Spec2Model ----
(***************************************************************************)
(* Model of server.js: the campaign-report HTTP service.                   *)
(*                                                                         *)
(* State of the program: the backing file DATA_FILE, the in-memory cache   *)
(* pair (campaignCache, lastCacheUpdate) and, for every request in flight, *)
(* the handler's position and its local variables.  Node runs a handler    *)
(* without interruption from one await to the next, so every action below  *)
(* is such a stretch.  A file system operation started by an await         *)
(* (readFile, writeFile's open, writeFile's write) takes effect some time  *)
(* after the call and the handler's continuation runs some time after      *)
(* that; each is a step of its own.  A stretch that touches nothing but    *)
(* the handler's locals is joined with the file system effect that follows *)
(* it, since no other request can tell the two apart.                      *)
(*                                                                         *)
(* History (not state of the program) records what the claims speak        *)
(* about: per request the Store loads and saves it made and the state it   *)
(* found, the contents the file has held, and the request completed last   *)
(* with its response.                                                      *)
(***************************************************************************)
EXTENDS Integers, Sequences, FiniteSets, TLC

VARIABLES
    file,             \* content of DATA_FILE on disk
    campaignCache,    \* server.js:23
    lastCacheUpdate,  \* server.js:24
    clock,            \* the value Date.now() returned last
    pc,               \* per request slot: position of its handler
    loc,              \* per request slot: the handler's locals
    log,              \* history: contents of the file, as a load would return them
    doneIdx,          \* history: index in log of the latest write whose request succeeded
    last,             \* history: the request completed last
    started,          \* number of requests received
    ticks             \* number of times Date.now() returned a later time

vars == <<file, campaignCache, lastCacheUpdate, clock, pc, loc,
          log, doneIdx, last, started, ticks>>

---------------------------------------------------------------------------
(* Bounds of the model *)

NumProcs == 2
MaxRequests == 3
MaxTicks == 1
MaxUpserts == 2

Procs == 1..NumProcs

---------------------------------------------------------------------------
(* Program constants *)

CACHE_DURATION == 5 * 60 * 1000

\* Date.now() at process start: any positive number of milliseconds
StartTime == 1

\* lastCacheUpdate = null.  Lines 73 and 237 only test lastCacheUpdate for
\* truthiness, and Date.now() is never 0, so null is represented by 0.
NoTime == 0

---------------------------------------------------------------------------
(* JavaScript values: a value is undefined, null, or an object described   *)
(* by its `reports` property: the property's type tag rt and, when it is   *)
(* an array, its elements rv.                                              *)

Obj(rt, rv) == [k |-> "object", rt |-> rt, rv |-> rv]
Doc(reports) == Obj("array", reports)
JSNull == [k |-> "null", rt |-> "undefined", rv |-> <<>>]
JSUndefined == [k |-> "undefined", rt |-> "undefined", rv |-> <<>>]

\* !!v for a whole value
Truthy(v) == v.k = "object"
\* !!v.reports
TruthyReports(v) == v.rt \in {"array", "string", "number", "object"}
\* Array.isArray(v.reports)
IsArrayReports(v) == v.rt = "array"

\* A report: its id property ("none": the property is absent) and a payload.
\* Ids are the identifiers requests ask for.
Ids == {"a", "c"}
Report(id, x) == [id |-> id, x |-> x]
NoReport == [id |-> "none", x |-> 0]

A1 == Report("a", 1)
A2 == Report("a", 2)
B1 == Report("b", 1)
B2 == Report("b", 2)
N1 == Report("none", 1)
Cc1 == Report("c", 1)

---------------------------------------------------------------------------
(* The backing file *)

FileMissing == [st |-> "missing", content |-> JSUndefined]
FileTruncated == [st |-> "truncated", content |-> JSUndefined]
FileCorrupt == [st |-> "corrupt", content |-> JSUndefined]
\* JSON.stringify(data, null, 2) written out in full
FileJson(data) == [st |-> "json", content |-> data]

\* A load without the catch of lines 42-46: the error reaches the handler,
\* which has no data (null stands for that) and answers 500
loadOrThrow(f) ==
    IF f.st = "json" THEN f.content ELSE JSNull

\* loadCampaignData: readFile + JSON.parse of a file in state f; every
\* failure (ENOENT, unreadable, SyntaxError on empty or garbled text) is
\* caught and yields { reports: [] }
loadCampaignData(f) ==
    IF f.st = "json" THEN f.content ELSE Doc(<<>>)

---------------------------------------------------------------------------
(* Pure parts of the handlers *)

\* A cache check that never finds the cache usable
cacheNeverFresh(now) == FALSE

\* A cache check that takes a snapshot as old as the cache duration as usable
cacheFreshInclusive(now) ==
    /\ Truthy(campaignCache)
    /\ lastCacheUpdate # NoTime
    /\ now - lastCacheUpdate <= CACHE_DURATION

\* line 73: campaignCache && lastCacheUpdate && (now - lastCacheUpdate < CACHE_DURATION)
CacheFresh(now) ==
    /\ Truthy(campaignCache)
    /\ lastCacheUpdate # NoTime
    /\ now - lastCacheUpdate < CACHE_DURATION

\* A structural check without the Array.isArray test
validBodyNoArrayTest(newData) ==
    ~ (~ Truthy(newData) \/ ~ TruthyReports(newData))

\* line 125: the body passes the structural check
ValidBody(newData) ==
    ~ (~ Truthy(newData) \/ ~ TruthyReports(newData) \/ ~ IsArrayReports(newData))

\* A scan that keeps the last match instead of the first
findLastIndex(reports, reportId) ==
    IF \E i \in 1..Len(reports) : reports[i].id = reportId
    THEN CHOOSE i \in 1..Len(reports) :
            /\ reports[i].id = reportId
            /\ \A j \in (i + 1)..Len(reports) : reports[j].id # reportId
    ELSE 0

\* Array.prototype.findIndex with r => r.id === reportId, 1-based; 0 stands for -1
findIndex(reports, reportId) ==
    IF \E i \in 1..Len(reports) : reports[i].id = reportId
    THEN CHOOSE i \in 1..Len(reports) :
            /\ reports[i].id = reportId
            /\ \A j \in 1..(i - 1) : reports[j].id # reportId
    ELSE 0

\* An upsert that puts a new report first (unshift for push)
upsertReportUnshift(reports, reportId, updatedReport) ==
    IF findIndex(reports, reportId) = 0
    THEN <<updatedReport>> \o reports
    ELSE [reports EXCEPT ![findIndex(reports, reportId)] = updatedReport]

\* lines 169-179: push when the index is -1, assign in place otherwise
upsertReport(reports, reportId, updatedReport) ==
    IF findIndex(reports, reportId) = 0
    THEN Append(reports, updatedReport)
    ELSE [reports EXCEPT ![findIndex(reports, reportId)] = updatedReport]

\* A lookup that returns the last match instead of the first
findLast(reports, reportId) ==
    IF findLastIndex(reports, reportId) = 0
    THEN NoReport
    ELSE reports[findLastIndex(reports, reportId)]

\* line 100: Array.prototype.find with r => r.id === reportId; NoReport stands
\* for undefined
find(reports, reportId) ==
    IF findIndex(reports, reportId) = 0
    THEN NoReport
    ELSE reports[findIndex(reports, reportId)]

\* A partial update that reads the file again when it is about to save
upsertDataReloaded(ctx) == loadCampaignData(file)

\* lines 166-179: the document the partial update modifies and saves is the
\* one its load of line 166 returned, whatever has been written since
upsertData(ctx) == ctx.data

\* lines 187-191: what the success response of the partial update says was
\* done to the report, `Report ${reportId} updated successfully`, after
\* either branch of line 171
upsertMessage(reportIndex) == "updated"

\* A full update that resets the timestamp and leaves the snapshot
clearTimestampOnly == <<campaignCache, NoTime>>

\* A write that does not invalidate: the cache is left as it is
keepCache == <<campaignCache, lastCacheUpdate>>

\* lines 136-137: what the full update leaves in <<campaignCache, lastCacheUpdate>>
clearCacheOnUpdate == <<JSNull, NoTime>>

\* line 185: what the partial update leaves in <<campaignCache, lastCacheUpdate>>
clearCacheOnReportUpdate == <<JSNull, lastCacheUpdate>>

\* A handler that drops the snapshot before it knows the save succeeded
clearCacheBeforeSave == <<JSNull, NoTime>>

\* lines 148-153 and 193-198: what the catch of a write handler leaves in
\* <<campaignCache, lastCacheUpdate>> when saveCampaignData threw: lines
\* 135-137 and 185 were not reached
cacheAfterFailedSave == <<campaignCache, lastCacheUpdate>>

\* A lookup that keeps what it loaded as the snapshot
getReportCaches(data) == <<data, clock>>

\* lines 97-110: what GET /api/campaigns/reports/:reportId leaves in
\* <<campaignCache, lastCacheUpdate>>: the handler assigns neither
cacheAfterGetReport(data) == <<campaignCache, lastCacheUpdate>>

\* lines 82-83: what GET /api/campaigns leaves in <<campaignCache, lastCacheUpdate>>
\* after a load that returned data for a request that took now at line 72
updateCacheOnGet(data, now) == <<data, now>>

\* A refresh that leaves a snapshot younger than the cache duration alone
refreshUnlessFresh(data, now) ==
    IF CacheFresh(now) THEN <<campaignCache, lastCacheUpdate>> ELSE <<data, now>>

\* lines 208-209: what refresh leaves in <<campaignCache, lastCacheUpdate>>
\* with Date.now() returning now
updateCacheOnRefresh(data, now) == <<data, now>>

\* age: null in the response of GET /health; an age is never negative
AgeNull == -1

\* lines 235-238: the cache part of the response of GET /health when
\* Date.now() returns now: exists is !!campaignCache, age is
\* Date.now() - lastCacheUpdate or null
healthCache(cache, ts, now) ==
    [exists |-> Truthy(cache),
     age |-> IF ts # NoTime THEN now - ts ELSE AgeNull]

---------------------------------------------------------------------------
(* Requests in flight and the record of completed requests *)

\* The Coordinator's state as a request that reads the time as now sees it:
\* Empty (no snapshot), Fresh (snapshot younger than the cache duration) or
\* Stale
CacheState(cache, ts, now) ==
    IF ~ Truthy(cache) \/ ts = NoTime THEN "Empty"
    ELSE IF now - ts < CACHE_DURATION THEN "Fresh"
    ELSE "Stale"

\* What a completed request r produced: the document it persisted (a write)
\* or returned (a read)
Outcome(r) ==
    IF r.ctx.op = "replaceAll" THEN r.ctx.newData
    ELSE IF r.ctx.op = "upsertReport" THEN r.ctx.data
    ELSE r.doc

\* The document the latest getAll returned, as long as only requests that
\* neither write nor refresh (getReport, a rejected body) completed since;
\* JSUndefined when there is none
Served(r) ==
    IF r.ctx.op = "getAll" /\ r.status = 200 THEN r.doc
    ELSE IF r.ctx.op = "getReport" \/ r.status = 400 THEN r.ctx.prevServed
    ELSE JSUndefined

\* The requests whose save has opened the file and not yet written, and the
\* document each is saving
Writers == {q \in Procs : pc[q] \in {"replaceAll_write", "upsert_write"}}
Saving(q) == IF pc[q] = "replaceAll_write" THEN loc[q].newData ELSE loc[q].data

\* A load as history: whether it read the file between the open and the write
\* of a save in flight (mid), the document it returned (got) and, when mid,
\* the document the file held before that open and the documents being saved
\* (whole)
ReadNow ==
    [mid |-> Writers # {} /\ file = FileTruncated,
     got |-> loadCampaignData(file),
     whole |-> IF Writers # {} /\ file = FileTruncated
               THEN {log[Len(log) - 1]} \cup {Saving(q) : q \in Writers}
               ELSE {}]

NoRead == [mid |-> FALSE, got |-> JSUndefined, whole |-> {}]

\* The locals of a handler (reportId, newData, updatedReport, now, data,
\* reportIndex) and, as history, what the request found when it arrived
\* (file0, cache0, last0, state0, of the request completed before it prevOp
\* to prevServed, and the latest completed write, floor) and what it has done
\* (loaded, saved, lidx: the place in log of what the file held when it
\* arrived, widx: the place in log of what it wrote, and rd: its load)
Ctx(op, reportId, newData, updatedReport) ==
    [op |-> op, reportId |-> reportId, newData |-> newData,
     updatedReport |-> updatedReport,
     now |-> clock, data |-> JSUndefined, reportIndex |-> 0,
     loaded |-> 0, saved |-> 0, lidx |-> Len(log), widx |-> 0, floor |-> doneIdx,
     rd |-> NoRead,
     file0 |-> file, cache0 |-> campaignCache, last0 |-> lastCacheUpdate,
     state0 |-> CacheState(campaignCache, lastCacheUpdate, clock),
     prevOp |-> last.ctx.op, prevStatus |-> last.status,
     prevDoc |-> Outcome(last), prevLoaded |-> last.ctx.loaded,
     prevState0 |-> last.ctx.state0, prevCache0 |-> last.ctx.cache0,
     prevServed |-> Served(last)]

LocIdle ==
    [op |-> "none", reportId |-> "none", newData |-> JSUndefined,
     updatedReport |-> NoReport,
     now |-> 0, data |-> JSUndefined, reportIndex |-> 0,
     loaded |-> 0, saved |-> 0, lidx |-> 0, widx |-> 0, floor |-> 0,
     rd |-> NoRead,
     file0 |-> FileMissing, cache0 |-> JSNull, last0 |-> NoTime,
     state0 |-> "Empty",
     prevOp |-> "none", prevStatus |-> 0,
     prevDoc |-> JSUndefined, prevLoaded |-> 0,
     prevState0 |-> "Empty", prevCache0 |-> JSNull,
     prevServed |-> JSUndefined]

\* Of a completed request r, what a request that completes right after it
\* keeps: what was asked, the answer, the document a write handled and the
\* places in log of its arrival and its write
Brief(r) ==
    [op |-> r.ctx.op, status |-> r.status, reportId |-> r.ctx.reportId,
     updatedReport |-> r.ctx.updatedReport, data |-> r.ctx.data,
     lidx |-> r.ctx.lidx, widx |-> r.ctx.widx]

NoBrief ==
    [op |-> "none", status |-> 0, reportId |-> "none",
     updatedReport |-> NoReport, data |-> JSUndefined, lidx |-> 0, widx |-> 0]

\* A completed request: its context ctx, the response (status and, as the
\* handler has them, the document, report or message of its body), the
\* state the handler left behind and, in before, the request that completed
\* just before it
Done(ctx, status, doc, report, msg, cacheAfter, lastAfter, fileAfter) ==
    [ctx |-> ctx, status |-> status, doc |-> doc, report |-> report, msg |-> msg,
     cache1 |-> cacheAfter, last1 |-> lastAfter, file1 |-> fileAfter,
     before |-> Brief(last)]

NoDone ==
    [ctx |-> LocIdle, status |-> 0, doc |-> JSUndefined, report |-> NoReport,
     msg |-> "", cache1 |-> JSNull, last1 |-> NoTime, file1 |-> FileMissing,
     before |-> NoBrief]

Respond(rec) == last' = rec

Idle(p) ==
    /\ pc' = [pc EXCEPT ![p] = "idle"]
    /\ loc' = [loc EXCEPT ![p] = LocIdle]

Max(a, b) == IF a >= b THEN a ELSE b

\* A request arrives and is given the first free slot
Receive(p) ==
    /\ pc[p] = "idle"
    /\ \A q \in Procs : q < p => pc[q] # "idle"
    /\ started < MaxRequests
    /\ started' = started + 1

\* Date.now() (lines 72, 209): the time returned last plus the time that has
\* passed since: none, a millisecond less than the cache duration, or the
\* cache duration
Elapsed == {0, CACHE_DURATION - 1, CACHE_DURATION}

DateNow(d) ==
    /\ d = 0 \/ ticks < MaxTicks
    /\ clock' = clock + d
    /\ ticks' = IF d = 0 THEN ticks ELSE ticks + 1

---------------------------------------------------------------------------
(* Inputs *)

\* Bodies of POST /api/campaigns/update: no body, bodies without a usable
\* reports property, and documents
InvalidBodies == {JSUndefined, Obj("undefined", <<>>), Obj("string", <<>>)}
ValidBodies == {Doc(<<>>), Doc(<<B2>>)}
Bodies == InvalidBodies \cup ValidBodies

\* Bodies of POST /api/campaigns/reports/:reportId/update
ReportBodies == {A2, N1}

\* Bodies of the partial update when only partial updates are sent
UpsertBodies == {A2, Cc1}

\* What the file may hold when the process starts
InitFiles == {FileMissing, FileJson(Doc(<<A1, B1>>))}

\* Files whose text parses to something that is no document: {} and null
ShapelessFiles == {FileJson(Obj("undefined", <<>>)), FileJson(JSNull)}

---------------------------------------------------------------------------
(* Initial state: lines 23-24 *)

Init ==
    /\ file \in InitFiles
    /\ campaignCache = JSNull
    /\ lastCacheUpdate = NoTime
    /\ clock = StartTime
    /\ pc = [p \in Procs |-> "idle"]
    /\ loc = [p \in Procs |-> LocIdle]
    /\ log = <<loadCampaignData(file)>>
    /\ doneIdx = 1
    /\ last = NoDone
    /\ started = 0
    /\ ticks = 0

\* The process starts on any file, also one that parses but holds no document
InitAnyFile ==
    /\ file \in InitFiles \cup ShapelessFiles
    /\ campaignCache = JSNull
    /\ lastCacheUpdate = NoTime
    /\ clock = StartTime
    /\ pc = [p \in Procs |-> "idle"]
    /\ loc = [p \in Procs |-> LocIdle]
    /\ log = <<loadCampaignData(file)>>
    /\ doneIdx = 1
    /\ last = NoDone
    /\ started = 0
    /\ ticks = 0

---------------------------------------------------------------------------
(* The Store: the effects of loadCampaignData and saveCampaignData *)

\* lines 38-47: the pending load of slot p reads the file as it is now
Loaded(p, ctx) ==
    [ctx EXCEPT !.data = loadCampaignData(file), !.loaded = ctx.loaded + 1,
                !.rd = ReadNow]

\* lines 52-53: writeFile opens DATA_FILE with flag 'w', which truncates it
Truncate ==
    /\ file' = FileTruncated
    /\ log' = Append(log, loadCampaignData(FileTruncated))

\* line 53: writeFile writes the text of data from offset 0.  When another
\* writeFile wrote after this one truncated the file, the two texts overlay
\* each other: the result is this text or, when the other one is longer,
\* unparseable.
WriteOut(data) ==
    /\ file' \in (IF file = FileTruncated
                  THEN {FileJson(data)}
                  ELSE {FileJson(data), FileCorrupt})
    /\ log' = Append(log, loadCampaignData(file'))

\* lines 56-58 with 148-153 and 193-198: the write fails after the open (disk
\* full); the error is rethrown, the handler's catch answers 500 and touches
\* nothing else.  The file stays as the open left it.
SaveFail(p) ==
    /\ pc[p] \in {"replaceAll_write", "upsert_write"}
    /\ campaignCache' = cacheAfterFailedSave[1]
    /\ lastCacheUpdate' = cacheAfterFailedSave[2]
    /\ Respond(Done(loc[p], 500, JSUndefined, NoReport, "", campaignCache',
                    lastCacheUpdate', file))
    /\ Idle(p)
    /\ UNCHANGED <<file, clock, log, doneIdx, started, ticks>>

---------------------------------------------------------------------------
(* GET /api/campaigns: lines 67-94 *)

\* lines 72-79: the cache check; a fresh cache is returned at once, otherwise
\* the handler awaits the load
GetAllStart(p, d) ==
    /\ Receive(p)
    /\ DateNow(d)
    /\ LET now == clock'
           ctx == [Ctx("getAll", "none", JSUndefined, NoReport) EXCEPT
                      !.now = now,
                      !.state0 = CacheState(campaignCache, lastCacheUpdate, now)]
       IN  IF CacheFresh(now)
           THEN /\ Respond(Done(ctx, 200, campaignCache, NoReport, "",
                                campaignCache, lastCacheUpdate, file))
                /\ UNCHANGED <<pc, loc>>
           ELSE /\ pc' = [pc EXCEPT ![p] = "getAll_load"]
                /\ loc' = [loc EXCEPT ![p] = ctx]
                /\ UNCHANGED last
    /\ UNCHANGED <<file, campaignCache, lastCacheUpdate, log, doneIdx>>

\* line 79: the load reads the file
GetAllRead(p) ==
    /\ pc[p] = "getAll_load"
    /\ pc' = [pc EXCEPT ![p] = "getAll_cont"]
    /\ loc' = [loc EXCEPT ![p] = Loaded(p, loc[p])]
    /\ UNCHANGED <<file, campaignCache, lastCacheUpdate, clock, log, doneIdx,
                   last, started, ticks>>

\* lines 82-86: the cache is set from the loaded data and the now of line 72;
\* data.reports?.length throws when data is null, after the cache was set
GetAllCont(p) ==
    /\ pc[p] = "getAll_cont"
    /\ campaignCache' = updateCacheOnGet(loc[p].data, loc[p].now)[1]
    /\ lastCacheUpdate' = updateCacheOnGet(loc[p].data, loc[p].now)[2]
    /\ Respond(Done(loc[p], IF Truthy(loc[p].data) THEN 200 ELSE 500,
                    IF Truthy(loc[p].data) THEN loc[p].data ELSE JSUndefined,
                    NoReport, "", campaignCache', lastCacheUpdate', file))
    /\ Idle(p)
    /\ UNCHANGED <<file, clock, log, doneIdx, started, ticks>>

---------------------------------------------------------------------------
(* GET /api/campaigns/reports/:reportId: lines 97-110 *)

\* line 99: the load reads the file
GetReportRead(p, reportId) ==
    /\ Receive(p)
    /\ pc' = [pc EXCEPT ![p] = "getReport_cont"]
    /\ loc' = [loc EXCEPT ![p] =
                  Loaded(p, Ctx("getReport", reportId, JSUndefined, NoReport))]
    /\ UNCHANGED <<file, campaignCache, lastCacheUpdate, clock, log, doneIdx,
                   last, ticks>>

\* The status lines 100-109 answer with: data.reports.find throws unless
\* data.reports is an array (caught: 500); no match: 404
getReportStatus(data, reportId) ==
    IF ~ (Truthy(data) /\ IsArrayReports(data)) THEN 500
    ELSE IF find(data.rv, reportId) = NoReport THEN 404
    ELSE 200

GetReportCont(p) ==
    /\ pc[p] = "getReport_cont"
    /\ campaignCache' = cacheAfterGetReport(loc[p].data)[1]
    /\ lastCacheUpdate' = cacheAfterGetReport(loc[p].data)[2]
    /\ LET status == getReportStatus(loc[p].data, loc[p].reportId)
       IN  Respond(Done(loc[p], status, JSUndefined,
                        IF status = 200
                        THEN find(loc[p].data.rv, loc[p].reportId)
                        ELSE NoReport,
                        "", campaignCache', lastCacheUpdate', file))
    /\ Idle(p)
    /\ UNCHANGED <<file, clock, log, doneIdx, started, ticks>>

---------------------------------------------------------------------------
(* POST /api/campaigns/update: lines 118-155 *)

\* lines 122-133: the structural check answers 400; a valid body is saved.
\* opens: whether ensureDataDirectory and writeFile's open succeed; when
\* they do not, the file is untouched and the catch answers 500.
ReplaceAllOpen(p, newData, opens) ==
    /\ Receive(p)
    /\ LET ctx == Ctx("replaceAll", "none", newData, NoReport) IN
       IF ~ ValidBody(newData)
       THEN /\ Respond(Done(ctx, 400, JSUndefined, NoReport, "",
                            campaignCache, lastCacheUpdate, file))
            /\ UNCHANGED <<pc, loc, file, log, campaignCache, lastCacheUpdate>>
       ELSE IF ~ opens
       THEN /\ campaignCache' = cacheAfterFailedSave[1]
            /\ lastCacheUpdate' = cacheAfterFailedSave[2]
            /\ Respond(Done([ctx EXCEPT !.saved = 1], 500, JSUndefined,
                            NoReport, "", campaignCache', lastCacheUpdate', file))
            /\ UNCHANGED <<pc, loc, file, log>>
       ELSE /\ pc' = [pc EXCEPT ![p] = "replaceAll_write"]
            /\ loc' = [loc EXCEPT ![p] = [ctx EXCEPT !.saved = 1]]
            /\ Truncate
            /\ UNCHANGED <<last, campaignCache, lastCacheUpdate>>
    /\ UNCHANGED <<clock, doneIdx, ticks>>

\* line 133: writeFile writes newData
ReplaceAllWrite(p) ==
    /\ pc[p] = "replaceAll_write"
    /\ pc' = [pc EXCEPT ![p] = "replaceAll_cont"]
    /\ WriteOut(loc[p].newData)
    /\ loc' = [loc EXCEPT ![p].widx = Len(log) + 1]
    /\ UNCHANGED <<campaignCache, lastCacheUpdate, clock, doneIdx, last,
                   started, ticks>>

\* lines 135-146: after the save the cache is cleared and 200 is answered
ReplaceAllCont(p) ==
    /\ pc[p] = "replaceAll_cont"
    /\ campaignCache' = clearCacheOnUpdate[1]
    /\ lastCacheUpdate' = clearCacheOnUpdate[2]
    /\ doneIdx' = Max(doneIdx, loc[p].widx)
    /\ Respond(Done(loc[p], 200, JSUndefined, NoReport, "", campaignCache',
                    lastCacheUpdate', file))
    /\ Idle(p)
    /\ UNCHANGED <<file, clock, log, started, ticks>>

---------------------------------------------------------------------------
(* POST /api/campaigns/reports/:reportId/update: lines 158-200 *)

\* line 166: the load reads the file
UpsertRead(p, reportId, updatedReport) ==
    /\ Receive(p)
    /\ pc' = [pc EXCEPT ![p] = "upsert_cont"]
    /\ loc' = [loc EXCEPT ![p] =
                  Loaded(p, Ctx("upsertReport", reportId, JSUndefined, updatedReport))]
    /\ UNCHANGED <<file, campaignCache, lastCacheUpdate, clock, log, doneIdx,
                   last, ticks>>

\* lines 169-182: data.reports.findIndex throws unless data.reports is an
\* array (caught: 500); otherwise data is changed and saved.  opens: as in
\* ReplaceAllOpen.
UpsertOpen(p, opens) ==
    /\ pc[p] = "upsert_cont"
    /\ LET data == upsertData(loc[p])
           ctx == [loc[p] EXCEPT
                     !.reportIndex = findIndex(data.rv, loc[p].reportId),
                     !.data = Doc(upsertReport(data.rv, loc[p].reportId,
                                               loc[p].updatedReport)),
                     !.saved = 1]
       IN
       IF ~ (Truthy(data) /\ IsArrayReports(data))
       THEN /\ Respond(Done(loc[p], 500, JSUndefined, NoReport, "",
                            campaignCache, lastCacheUpdate, file))
            /\ Idle(p)
            /\ UNCHANGED <<file, log, campaignCache, lastCacheUpdate>>
       ELSE IF ~ opens
       THEN /\ campaignCache' = cacheAfterFailedSave[1]
            /\ lastCacheUpdate' = cacheAfterFailedSave[2]
            /\ Respond(Done(ctx, 500, JSUndefined, NoReport, "",
                            campaignCache', lastCacheUpdate', file))
            /\ Idle(p)
            /\ UNCHANGED <<file, log>>
       ELSE /\ pc' = [pc EXCEPT ![p] = "upsert_write"]
            /\ loc' = [loc EXCEPT ![p] = ctx]
            /\ Truncate
            /\ UNCHANGED <<last, campaignCache, lastCacheUpdate>>
    /\ UNCHANGED <<clock, doneIdx, started, ticks>>

\* line 182: writeFile writes data
UpsertWrite(p) ==
    /\ pc[p] = "upsert_write"
    /\ pc' = [pc EXCEPT ![p] = "upsert_saved"]
    /\ WriteOut(loc[p].data)
    /\ loc' = [loc EXCEPT ![p].widx = Len(log) + 1]
    /\ UNCHANGED <<campaignCache, lastCacheUpdate, clock, doneIdx, last,
                   started, ticks>>

\* lines 184-191: after the save campaignCache is cleared and 200 is answered
UpsertSaved(p) ==
    /\ pc[p] = "upsert_saved"
    /\ campaignCache' = clearCacheOnReportUpdate[1]
    /\ lastCacheUpdate' = clearCacheOnReportUpdate[2]
    /\ doneIdx' = Max(doneIdx, loc[p].widx)
    /\ Respond(Done(loc[p], 200, JSUndefined, NoReport,
                    upsertMessage(loc[p].reportIndex), campaignCache',
                    lastCacheUpdate', file))
    /\ Idle(p)
    /\ UNCHANGED <<file, clock, log, started, ticks>>

---------------------------------------------------------------------------
(* POST /api/campaigns/refresh: lines 203-223 *)

\* line 207: the load reads the file
RefreshRead(p) ==
    /\ Receive(p)
    /\ pc' = [pc EXCEPT ![p] = "refresh_cont"]
    /\ loc' = [loc EXCEPT ![p] =
                  Loaded(p, Ctx("refresh", "none", JSUndefined, NoReport))]
    /\ UNCHANGED <<file, campaignCache, lastCacheUpdate, clock, log, doneIdx,
                   last, ticks>>

\* lines 208-216: the cache is set from the loaded data and Date.now();
\* data.reports?.length throws when data is null, after the cache was set
RefreshCont(p, d) ==
    /\ pc[p] = "refresh_cont"
    /\ DateNow(d)
    /\ campaignCache' = updateCacheOnRefresh(loc[p].data, clock')[1]
    /\ lastCacheUpdate' = updateCacheOnRefresh(loc[p].data, clock')[2]
    /\ Respond(Done(loc[p], IF Truthy(loc[p].data) THEN 200 ELSE 500,
                    IF Truthy(loc[p].data) THEN loc[p].data ELSE JSUndefined,
                    NoReport, "", campaignCache', lastCacheUpdate', file))
    /\ Idle(p)
    /\ UNCHANGED <<file, log, doneIdx, started>>

---------------------------------------------------------------------------
(* Specifications *)

Arrive ==
    \/ \E p \in Procs, d \in Elapsed : GetAllStart(p, d)
    \/ \E p \in Procs, reportId \in Ids : GetReportRead(p, reportId)
    \/ \E p \in Procs, newData \in Bodies, opens \in BOOLEAN :
          ReplaceAllOpen(p, newData, opens)
    \/ \E p \in Procs, reportId \in Ids, updatedReport \in ReportBodies :
          UpsertRead(p, reportId, updatedReport)
    \/ \E p \in Procs : RefreshRead(p)

Step ==
    \/ \E p \in Procs : GetAllRead(p)
    \/ \E p \in Procs : GetAllCont(p)
    \/ \E p \in Procs : GetReportCont(p)
    \/ \E p \in Procs : ReplaceAllWrite(p)
    \/ \E p \in Procs : ReplaceAllCont(p)
    \/ \E p \in Procs, opens \in BOOLEAN : UpsertOpen(p, opens)
    \/ \E p \in Procs : UpsertWrite(p)
    \/ \E p \in Procs : UpsertSaved(p)
    \/ \E p \in Procs, d \in Elapsed : RefreshCont(p, d)
    \/ \E p \in Procs : SaveFail(p)

Next == Arrive \/ Step

\* Requests arrive at any time and run concurrently
Spec == Init /\ [][Next]_vars

\* Requests run one after another: a request arrives only when no other is
\* in flight
Quiet == \A p \in Procs : pc[p] = "idle"

NextSeq ==
    \/ Quiet /\ \E p \in Procs, d \in Elapsed : GetAllStart(p, d)
    \/ Quiet /\ \E p \in Procs, reportId \in Ids : GetReportRead(p, reportId)
    \/ Quiet /\ \E p \in Procs, newData \in Bodies, opens \in BOOLEAN :
                    ReplaceAllOpen(p, newData, opens)
    \/ Quiet /\ \E p \in Procs, reportId \in Ids, updatedReport \in ReportBodies :
                    UpsertRead(p, reportId, updatedReport)
    \/ Quiet /\ \E p \in Procs : RefreshRead(p)
    \/ Step

SeqSpec == Init /\ [][NextSeq]_vars

\* Requests one after another, the process having started on any file
AnyFileSpec == InitAnyFile /\ [][NextSeq]_vars

\* Partial updates only, MaxUpserts of them, arriving at any time and running
\* concurrently
NextUpsert ==
    \/ /\ started < MaxUpserts
       /\ \E p \in Procs, reportId \in Ids, updatedReport \in UpsertBodies :
             UpsertRead(p, reportId, updatedReport)
    \/ \E p \in Procs, opens \in BOOLEAN : UpsertOpen(p, opens)
    \/ \E p \in Procs : UpsertWrite(p)
    \/ \E p \in Procs : UpsertSaved(p)
    \/ \E p \in Procs : SaveFail(p)

UpsertSpec == Init /\ [][NextUpsert]_vars

---------------------------------------------------------------------------
(* Claims *)

IsWrite(op) == op \in {"replaceAll", "upsertReport"}

\* C1: requests running one after another, the getAll that immediately
\* follows a replaceAll or upsertReport that answered success answers 200
\* with the document that write persisted, whatever the cache held before
\* the write.
ReadAfterWrite ==
    (/\ last.ctx.op = "getAll"
     /\ IsWrite(last.ctx.prevOp)
     /\ last.ctx.prevStatus = 200)
    => (/\ last.status = 200
        /\ last.doc = last.ctx.prevDoc
        /\ last.doc = loadCampaignData(last.file1))

\* C1's case: the write was a partial update that found a Fresh snapshot, and
\* the getAll after it arrives within the cache duration of that snapshot's
\* timestamp and returns a document other than that snapshot
ReadAfterWriteWitness ==
    /\ last.ctx.op = "getAll"
    /\ last.ctx.prevOp = "upsertReport"
    /\ last.ctx.prevStatus = 200
    /\ last.ctx.prevState0 = "Fresh"
    /\ last.ctx.last0 # NoTime
    /\ last.ctx.now - last.ctx.last0 < CACHE_DURATION
    /\ last.doc = last.ctx.prevDoc
    /\ last.doc # last.ctx.prevCache0

\* The contents the file has held since the latest write that had answered
\* success when request r arrived was persisted
HeldSince(r) == {log[i] : i \in r.ctx.floor..Len(log)}

\* C2: under every interleaving, a getAll that arrives after a write has
\* answered success never returns a document older than the one that write
\* persisted: what it returns is a content the file has held since.
NoStaleSnapshotSurvives ==
    (last.ctx.op = "getAll" /\ last.status = 200) => last.doc \in HeldSince(last)

\* C3: requests running one after another, a getAll that arrives while the
\* snapshot is younger than the cache duration, after a getAll and with no
\* write or refresh since, returns the document that getAll returned and
\* reads nothing from the Store.
IdempotentFreshReads ==
    (/\ last.ctx.op = "getAll"
     /\ last.ctx.prevServed # JSUndefined
     /\ Truthy(last.ctx.cache0)
     /\ last.ctx.last0 # NoTime
     /\ last.ctx.now - last.ctx.last0 < CACHE_DURATION)
    => (/\ last.status = 200
        /\ last.doc = last.ctx.prevServed
        /\ last.ctx.loaded = 0)

\* C3's case: the second getAll arrives a millisecond before the snapshot
\* expires, a getReport having run in between
IdempotentFreshReadsWitness ==
    /\ last.ctx.op = "getAll"
    /\ last.ctx.prevOp = "getReport"
    /\ last.ctx.prevServed # JSUndefined
    /\ last.ctx.now - last.ctx.last0 = CACHE_DURATION - 1
    /\ last.doc = last.ctx.prevServed
    /\ last.ctx.loaded = 0

\* C4: requests running one after another, a getAll that arrives when the
\* snapshot's age is the cache duration or more reads the Store exactly once,
\* returns what it read and leaves that document as the snapshot, stamped
\* with the time the getAll took on arrival; and the getAll right after it,
\* arriving within the cache duration of that time, returns the same document
\* and reads nothing.
TTLExpiry ==
    /\ (/\ last.ctx.op = "getAll"
        /\ Truthy(last.ctx.cache0)
        /\ last.ctx.last0 # NoTime
        /\ last.ctx.now - last.ctx.last0 >= CACHE_DURATION)
       => (/\ last.ctx.loaded = 1
           /\ last.status = 200
           /\ last.doc = loadCampaignData(last.ctx.file0)
           /\ last.cache1 = last.doc
           /\ last.last1 = last.ctx.now)
    /\ (/\ last.ctx.op = "getAll"
        /\ last.ctx.prevOp = "getAll"
        /\ last.ctx.prevState0 = "Stale"
        /\ last.ctx.now - last.ctx.last0 < CACHE_DURATION)
       => (/\ last.ctx.loaded = 0
           /\ last.doc = last.ctx.prevDoc)

\* C4's case: a getAll arrived when the snapshot's age was exactly the cache
\* duration and loaded, and the getAll after it was served from the cache
TTLExpiryWitness ==
    /\ last.ctx.op = "getAll"
    /\ last.ctx.prevOp = "getAll"
    /\ last.ctx.prevState0 = "Stale"
    /\ last.ctx.prevLoaded = 1
    /\ last.ctx.last0 = StartTime + CACHE_DURATION
    /\ last.ctx.loaded = 0

\* The reports a load of the file as request r found it returns, and the
\* positions among them whose report has the identifier r asks for
ReportsBefore(r) == loadCampaignData(r.ctx.file0).rv
Matches(r) == {i \in 1..Len(ReportsBefore(r)) : ReportsBefore(r)[i].id = r.ctx.reportId}

UpsertSucceeded(r) == r.ctx.op = "upsertReport" /\ r.status = 200

\* C5: requests running one after another, an upsertReport that answers
\* success for an identifier no persisted report has leaves a file holding the
\* previous reports, in order and unchanged, followed by the request's body.
UpsertInsert ==
    (UpsertSucceeded(last) /\ Matches(last) = {})
    => (/\ last.file1.st = "json"
        /\ IsArrayReports(last.file1.content)
        /\ Len(last.file1.content.rv) = Len(ReportsBefore(last)) + 1
        /\ \A i \in 1..Len(ReportsBefore(last)) :
              last.file1.content.rv[i] = ReportsBefore(last)[i]
        /\ last.file1.content.rv[Len(ReportsBefore(last)) + 1] = last.ctx.updatedReport)

\* C5's case: a report was appended to a document of two reports
UpsertInsertWitness ==
    /\ UpsertSucceeded(last)
    /\ Matches(last) = {}
    /\ Len(ReportsBefore(last)) = 2
    /\ Len(last.file1.content.rv) = 3

\* C6: requests running one after another, an upsertReport that answers
\* success for an identifier some persisted report has leaves a file holding
\* as many reports as before: the body at the lowest position that had the
\* identifier and, at every other position, the report that was there.
UpsertUpdate ==
    (UpsertSucceeded(last) /\ Matches(last) # {})
    => (/\ last.file1.st = "json"
        /\ IsArrayReports(last.file1.content)
        /\ Len(last.file1.content.rv) = Len(ReportsBefore(last))
        /\ \A i \in 1..Len(ReportsBefore(last)) :
              last.file1.content.rv[i] =
                 IF \A j \in Matches(last) : i <= j
                 THEN (IF i \in Matches(last) THEN last.ctx.updatedReport
                       ELSE ReportsBefore(last)[i])
                 ELSE ReportsBefore(last)[i])

\* C6's case: two persisted reports had the identifier, and the later one is
\* still there while the earlier one was replaced by a different report
UpsertUpdateWitness ==
    /\ UpsertSucceeded(last)
    /\ Cardinality(Matches(last)) = 2
    /\ \E i, j \in Matches(last) :
          /\ i < j
          /\ last.file1.content.rv[i] # ReportsBefore(last)[i]
          /\ last.file1.content.rv[j] = ReportsBefore(last)[j]

\* C7: the success response of upsertReport tells the caller what was done:
\* 'inserted' when no persisted report had the identifier, 'updated' when one
\* had.
UpsertReportsOutcomeKind ==
    UpsertSucceeded(last)
    => last.msg = (IF Matches(last) = {} THEN "inserted" ELSE "updated")

\* C8: a replaceAll whose body is absent, has no reports property or has one
\* that is no array is answered 400 without any Store load or save, and the
\* file, the snapshot and its timestamp are as the request found them; a body
\* whose reports is the empty array passes the check and is saved.
ValidationRejection ==
    /\ (/\ last.ctx.op = "replaceAll"
        /\ (last.ctx.newData.k # "object" \/ last.ctx.newData.rt # "array"))
       => (/\ last.status = 400
           /\ last.ctx.loaded = 0
           /\ last.ctx.saved = 0
           /\ last.file1 = last.ctx.file0
           /\ last.cache1 = last.ctx.cache0
           /\ last.last1 = last.ctx.last0)
    /\ (last.ctx.op = "replaceAll" /\ last.ctx.newData = Doc(<<>>))
       => (last.status # 400 /\ last.ctx.saved = 1)

\* C8's case: a body whose reports is a string is rejected while the cache
\* holds a snapshot and the file a document
ValidationRejectionWitness ==
    /\ last.ctx.op = "replaceAll"
    /\ last.ctx.newData = Obj("string", <<>>)
    /\ last.status = 400
    /\ Truthy(last.cache1)
    /\ last.last1 # NoTime
    /\ last.file1.st = "json"

\* C9: requests running one after another, no getAll, getReport or refresh
\* answers 500; when the file is missing or does not parse, a getAll or
\* refresh that loads answers 200 with the empty document and a getReport
\* answers 404.
MissingFileBootstrap ==
    /\ last.ctx.op \in {"getAll", "getReport", "refresh"} => last.status # 500
    /\ (/\ last.ctx.op \in {"getAll", "refresh"}
        /\ last.ctx.loaded = 1
        /\ last.ctx.file0.st # "json")
       => (last.status = 200 /\ last.doc = Doc(<<>>))
    /\ (last.ctx.op = "getReport" /\ last.ctx.file0.st # "json")
       => last.status = 404

\* C9's case: a getAll loaded from a missing file
MissingFileBootstrapWitness ==
    /\ last.ctx.op = "getAll"
    /\ last.ctx.file0 = FileMissing
    /\ last.ctx.loaded = 1
    /\ last.status = 200
    /\ last.doc = Doc(<<>>)

\* C10: requests running one after another, getReport answers from the file:
\* 200 with the report at the lowest position that has the identifier, 404
\* when no persisted report has it, whatever the cache holds.
GetReportFromStore ==
    last.ctx.op = "getReport"
    => IF Matches(last) = {}
       THEN last.status = 404
       ELSE /\ last.status = 200
            /\ \E i \in Matches(last) :
                  /\ \A j \in Matches(last) : i <= j
                  /\ last.report = ReportsBefore(last)[i]

\* C10's case: the cache holds a Fresh snapshot with a report of the
\* identifier, the file does not, and getReport answers 404
GetReportFromStoreWitness ==
    /\ last.ctx.op = "getReport"
    /\ last.ctx.state0 = "Fresh"
    /\ \E i \in 1..Len(last.ctx.cache0.rv) :
          last.ctx.cache0.rv[i].id = last.ctx.reportId
    /\ Matches(last) = {}
    /\ last.status = 404

\* A completed write request whose save did not write its document: the
\* handler called saveCampaignData and nothing of it reached the file
SaveFailed(r) == IsWrite(r.ctx.op) /\ r.ctx.saved >= 1 /\ r.ctx.widx = 0

\* C11: requests running one after another, a replaceAll or upsertReport whose
\* save fails answers 500, has called save exactly once and leaves the
\* snapshot and its timestamp as the request found them; and a write request
\* answers 200 only when its save wrote the document.
SaveFailurePropagates ==
    /\ SaveFailed(last)
       => (/\ last.status = 500
           /\ last.ctx.saved = 1
           /\ last.cache1 = last.ctx.cache0
           /\ last.last1 = last.ctx.last0)
    /\ (IsWrite(last.ctx.op) /\ last.status = 200)
       => (last.ctx.saved = 1 /\ last.ctx.widx # 0)

\* C11's case: the save of a partial update fails after the open, while the
\* cache holds a Fresh snapshot, which is still there afterwards
SaveFailurePropagatesWitness ==
    /\ last.ctx.op = "upsertReport"
    /\ SaveFailed(last)
    /\ last.status = 500
    /\ last.ctx.state0 = "Fresh"
    /\ last.file1 = FileTruncated
    /\ Truthy(last.cache1)
    /\ last.last1 # NoTime

\* The partial update that completed just before the one completed last (B)
\* and the one completed last (U), when both answered success for different
\* identifiers
TwoUpserts ==
    /\ UpsertSucceeded(last)
    /\ last.before.op = "upsertReport"
    /\ last.before.status = 200
    /\ last.before.reportId # last.ctx.reportId

\* The body of a partial update carries the identifier it is sent under
WellFormed(u) == u.updatedReport.id = u.reportId

\* C12: of two partial updates for different identifiers that answered
\* success: (lost update) when both loaded the same content of the file, with
\* nothing written between their loads, and only they have written since,
\* each saved that content with its own change alone, and what the file holds
\* after both writes is the document of the one that wrote last, or garbled
\* text: never a merge; (no overlap) when the second loaded what the first
\* wrote and wrote next, the file holds the second's change applied to the
\* first's document, and the report of each, when its body carries its
\* identifier, is the one a lookup finds.
LostUpdate ==
    LET b == last.before
        u == last.ctx
        base == log[u.lidx].rv
        hi == Max(b.widx, u.widx)
    IN
    /\ (TwoUpserts /\ b.lidx = u.lidx /\ hi = u.lidx + 4)
       => (/\ b.data = Doc(upsertReport(base, b.reportId, b.updatedReport))
           /\ u.data = Doc(upsertReport(base, u.reportId, u.updatedReport))
           /\ log[hi] \in {IF hi = u.widx THEN u.data ELSE b.data, Doc(<<>>)})
    /\ (TwoUpserts /\ u.lidx = b.widx /\ u.widx = u.lidx + 2 /\ log[b.widx] = b.data)
       => (/\ log[u.widx] = Doc(upsertReport(b.data.rv, u.reportId, u.updatedReport))
           /\ (WellFormed(b) /\ WellFormed(u))
              => (/\ find(log[u.widx].rv, b.reportId) = b.updatedReport
                  /\ find(log[u.widx].rv, u.reportId) = u.updatedReport))

\* C12's case: two partial updates, each body carrying its identifier, loaded
\* the same two reports and both answered success; the file holds the
\* document of one of them, with the old report at the other's identifier,
\* and is not what either order of the two would have left
LostUpdateWitness ==
    /\ TwoUpserts
    /\ WellFormed(last.before) /\ WellFormed(last.ctx)
    /\ last.before.lidx = last.ctx.lidx
    /\ Len(log[last.ctx.lidx].rv) = 2
    /\ last.file1 = FileJson(last.ctx.data)
    /\ find(last.file1.content.rv, last.before.reportId) # last.before.updatedReport
    /\ last.file1.content #
          Doc(upsertReport(last.before.data.rv, last.ctx.reportId,
                           last.ctx.updatedReport))

\* C12's other case: the second partial update loaded what the first wrote
\* and both reports are in the file
LostUpdateNoOverlapWitness ==
    /\ TwoUpserts
    /\ WellFormed(last.before) /\ WellFormed(last.ctx)
    /\ last.ctx.lidx = last.before.widx
    /\ find(last.file1.content.rv, last.before.reportId) = last.before.updatedReport
    /\ find(last.file1.content.rv, last.ctx.reportId) = last.ctx.updatedReport

\* A value with the shape of a document: an object whose reports is an array
IsDocument(v) == Truthy(v) /\ IsArrayReports(v)

\* C13: whatever the file holds, what load returns is a document: the
\* snapshot in the cache, the document a getAll or refresh returns and the
\* content of a file an operation wrote are documents, and on a file that
\* parses to something else getAll and refresh return the empty document,
\* getReport answers 404 and upsertReport does not answer 500 unless its save
\* fails.
DocumentShape ==
    /\ Truthy(campaignCache) => IsDocument(campaignCache)
    /\ \A i \in 2..Len(log) : IsDocument(log[i])
    /\ (last.ctx.op \in {"getAll", "refresh"} /\ last.ctx.loaded = 1
          /\ last.ctx.file0 \in ShapelessFiles)
       => (last.status = 200 /\ last.doc = Doc(<<>>))
    /\ (last.ctx.op = "getReport" /\ last.ctx.file0 \in ShapelessFiles)
       => last.status = 404
    /\ (last.ctx.op = "upsertReport" /\ last.ctx.file0 \in ShapelessFiles
          /\ ~ SaveFailed(last))
       => last.status = 200

\* The times at which the state a completed request r left behind may be
\* looked at, and the time that had really passed when r arrived: handlers
\* that do not call Date.now() work the same whatever that time is
TimesAfter(r) == {r.ctx.now + d : d \in Elapsed}

\* C14: requests running one after another, when a replaceAll or an
\* upsertReport has answered success, campaignCache holds no snapshot,
\* whether the snapshot the write found was absent, younger than the cache
\* duration or older: GET /health answers cache.exists = false and the
\* Coordinator is Empty, at whatever time it is looked at.
WriteLeavesEmpty ==
    (IsWrite(last.ctx.op) /\ last.status = 200)
    => \A now \in TimesAfter(last) :
          /\ ~ Truthy(last.cache1)
          /\ healthCache(last.cache1, last.last1, now).exists = FALSE
          /\ CacheState(last.cache1, last.last1, now) = "Empty"
          /\ Quiet => healthCache(campaignCache, lastCacheUpdate, now).exists = FALSE

\* C14's case: a full update succeeded on a snapshot that is Fresh at the
\* time the request was handled and Stale had it arrived the cache duration
\* later, and the snapshot is gone
WriteLeavesEmptyWitness ==
    /\ last.ctx.op = "replaceAll"
    /\ last.status = 200
    /\ \E t1, t2 \in TimesAfter(last) :
          /\ CacheState(last.ctx.cache0, last.ctx.last0, t1) = "Fresh"
          /\ CacheState(last.ctx.cache0, last.ctx.last0, t2) = "Stale"
    /\ Quiet
    /\ healthCache(campaignCache, lastCacheUpdate, clock).exists = FALSE

\* C15: in every state the snapshot and its timestamp are present together
\* or absent together: campaignCache is null exactly when lastCacheUpdate is,
\* and GET /health never answers cache.exists = false with an age.
SnapshotAndTimestampTogether ==
    /\ Truthy(campaignCache) <=> lastCacheUpdate # NoTime
    /\ \A d \in Elapsed :
          healthCache(campaignCache, lastCacheUpdate, clock + d).exists = FALSE
          => healthCache(campaignCache, lastCacheUpdate, clock + d).age = AgeNull

\* C16: requests running one after another, a refresh reads the Store exactly
\* once whatever the cache holds, answers with what it read and leaves it as
\* the snapshot, stamped with the time Date.now() returns in the handler, so
\* the cache is Fresh; with nothing else in flight the snapshot is what the
\* file holds and the timestamp is the time read last; and the getAll that
\* follows within the cache duration returns that document and reads nothing.
RefreshUnconditional ==
    /\ last.ctx.op = "refresh"
       => (/\ last.ctx.loaded = 1
           /\ last.status = 200
           /\ last.doc = loadCampaignData(last.ctx.file0)
           /\ last.cache1 = last.doc
           /\ last.last1 \in TimesAfter(last)
           /\ CacheState(last.cache1, last.last1, last.last1) = "Fresh"
           /\ Quiet => (/\ campaignCache = loadCampaignData(file)
                        /\ lastCacheUpdate = clock))
    /\ (/\ last.ctx.op = "getAll"
        /\ last.ctx.prevOp = "refresh"
        /\ last.ctx.now - last.ctx.last0 < CACHE_DURATION)
       => (/\ last.ctx.loaded = 0
           /\ last.status = 200
           /\ last.doc = last.ctx.prevDoc
           /\ last.doc = loadCampaignData(last.ctx.file0))

\* C16's case: a refresh found a snapshot that differs from the file and is,
\* at the time the refresh reads, as old as the cache duration, and replaced
\* it by what the file holds
RefreshUnconditionalWitness ==
    /\ last.ctx.op = "refresh"
    /\ Truthy(last.ctx.cache0)
    /\ last.last1 - last.ctx.last0 = CACHE_DURATION
    /\ last.cache1 # last.ctx.cache0
    /\ last.cache1 = loadCampaignData(last.file1)

\* C16's other cases: a refresh replaced a snapshot that was younger than the
\* cache duration and differed from the file; a getAll after a refresh was
\* served the refreshed snapshot
RefreshFromFreshWitness ==
    /\ last.ctx.op = "refresh"
    /\ last.ctx.state0 = "Fresh"
    /\ last.last1 - last.ctx.last0 < CACHE_DURATION
    /\ last.cache1 # last.ctx.cache0

RefreshThenGetAllWitness ==
    /\ last.ctx.op = "getAll"
    /\ last.ctx.prevOp = "refresh"
    /\ last.ctx.loaded = 0
    /\ last.doc = loadCampaignData(last.ctx.file0)

\* C17: under every interleaving, a load that reads the file while a save is
\* between its open and its write returns the document the file held before
\* that save or a document being saved, never the empty document the
\* truncated file reads as; this for the loads of requests in flight and of
\* the request completed last.
NoHalfWrittenRead ==
    /\ \A p \in Procs : loc[p].rd.mid => loc[p].rd.got \in loc[p].rd.whole
    /\ last.ctx.rd.mid => last.ctx.rd.got \in last.ctx.rd.whole

\* C18: requests running one after another and the process started on any
\* file, a getReport, whether it answers 200, 404 or 500, has saved nothing
\* and leaves the file, the snapshot and its timestamp as it found them.
GetReportChangesNothing ==
    last.ctx.op = "getReport"
    => (/\ last.status \in {200, 404, 500}
        /\ last.ctx.saved = 0
        /\ last.file1 = last.ctx.file0
        /\ last.cache1 = last.ctx.cache0
        /\ last.last1 = last.ctx.last0
        /\ Quiet => (/\ file = last.ctx.file0
                     /\ campaignCache = last.ctx.cache0
                     /\ lastCacheUpdate = last.ctx.last0))

\* C18's case: a getReport answered 500 while the cache held a snapshot
GetReportChangesNothingWitness ==
    /\ last.ctx.op = "getReport"
    /\ last.status = 500
    /\ Truthy(last.ctx.cache0)
    /\ last.ctx.last0 # NoTime
    /\ last.cache1 = last.ctx.cache0

\* C18's other cases: a getReport answered 200 while the cache held a
\* snapshot, and one answered 404 while the cache held a snapshot that
\* differs from what the lookup loaded
GetReportFoundWitness ==
    /\ last.ctx.op = "getReport"
    /\ last.status = 200
    /\ last.ctx.state0 = "Fresh"
    /\ last.cache1 = last.ctx.cache0

GetReportNotFoundWitness ==
    /\ last.ctx.op = "getReport"
    /\ last.status = 404
    /\ Truthy(last.cache1)
    /\ last.cache1 # last.ctx.data

\* The request completed just before the one completed last was a partial
\* update that answered success for the identifier the last one asks for
AfterUpsertOfSameId ==
    /\ last.before.op = "upsertReport"
    /\ last.before.status = 200
    /\ last.before.reportId = last.ctx.reportId

\* C19: requests running one after another, whatever id the body carries:
\* the getReport that follows a successful upsertReport for the same
\* identifier answers 200 with the body that was sent, and a second
\* upsertReport with the same identifier and body that answers success
\* leaves the file as the first left it.
UpsertAddressable ==
    /\ (last.ctx.op = "getReport" /\ AfterUpsertOfSameId)
       => (last.status = 200 /\ last.report = last.before.updatedReport)
    /\ (/\ UpsertSucceeded(last)
        /\ AfterUpsertOfSameId
        /\ last.before.updatedReport = last.ctx.updatedReport)
       => last.file1 = last.ctx.file0

====
